---- MODULE Spec2Model ----
(***************************************************************************)
(* A model of the TK-IT mail forwarder.                                    *)
(*                                                                         *)
(*   SpecParse : tkmail.address.parse_recipient and the alias matchers it  *)
(*               calls, applied to recipient strings over a small alphabet *)
(*               and to a small family of databases.                       *)
(*   SpecFwd   : emailtunnel.SMTPReceiver.process_message driving          *)
(*               SMTPForwarder.handle_envelope; every overridable hook     *)
(*               and the delivery sink answer nondeterministically.        *)
(*   SpecAlias : tkmail.address.parse_alias, one matcher after the other,  *)
(*               applied to a few names and to databases in which a name   *)
(*               can be a group, a title and a direct identifier at once.  *)
(*   SpecPeriod: tkmail.address.get_period, applied to prefixes and        *)
(*               postfixes over small alphabets.                           *)
(*   SpecEnv   : emailtunnel.Envelope.recipients, applied to messages with *)
(*               a few recipient header lines and short lists of envelope  *)
(*               recipients.                                               *)
(*   SpecCache : tkmail.address.get_current_period, called again and again *)
(*               with a fact source that answers or fails.                 *)
(*   SpecCopy  : the loop over the groups of SMTPForwarder.handle_envelope *)
(*               with the envelopes as objects of a heap and the headers   *)
(*               of their messages.                                        *)
(*                                                                         *)
(* Strings are sequences of symbols.  A symbol is a sign ("+" or "-") or a *)
(* chunk of characters that holds no sign.                                 *)
(***************************************************************************)
EXTENDS Integers, Sequences, FiniteSets, TLC

\* ------------------------------------------------------------------------
\* Bounds of the model
\* ------------------------------------------------------------------------

\* longest recipient string handed to parse_recipient, in symbols
MaxLen == 5

\* most entries Envelope.recipients() hands to get_envelope_recipients
MaxRcpts == 2

\* most targets the translate_recipient calls of one message return in all
MaxTargets == 3

\* longest prefix handed to get_period, in characters
MaxPrefixLen == 3

\* most recipient header lines of a message handed to Envelope.recipients
MaxHeaderLines == 2

\* most envelope recipients (RCPT TO) of a message
MaxRcptTos == 2

\* most calls of get_current_period
MaxCalls == 4

\* most groups of a message whose headers are followed
MaxGroups == 2

\* ------------------------------------------------------------------------
\* Program constants
\* ------------------------------------------------------------------------

\* the default of the --gf option, the year handed to translate_recipient
DefaultPeriod == 2014

\* BEST = 'CERM FORM INKA KASS NF PR SEKR VC'.split()
BEST == {"CERM", "FORM", "INKA", "KASS", "NF", "PR", "SEKR", "VC"}

\* target addresses, numbered in the order sorted() puts them
Addresses == {1, 2}

VARIABLES
    \* ---- parse_recipient ----
    recipient,            \* the argument `recipient`
    db,                   \* the argument `db` (the fact source)
    tk,                   \* the answers of tktitler.parse
    ppc,                  \* position inside parse_recipient
    personIdOps,          \* the list personIdOps
    invalid_recipients,   \* the list invalid_recipients
    aliasCalls,           \* the names parse_alias was called with, in order
    recipient_ids,        \* the set recipient_ids
    origin,               \* the dict origin
    presult,              \* what parse_recipient returned or raised
    \* ---- process_message / handle_envelope ----
    fpc,                  \* position inside process_message
    envelope_rcpts,       \* the rcptto of each entry of envelope.recipients()
    rcptIdx,                    \* get_envelope_recipients: the entry the loop is at
    translated,           \* what translate_recipient did for each entry so far
    invalid,              \* get_envelope_recipients: the list invalid
    recipients,           \* the list recipients
    subject,              \* envelope.message.subject
    groupIdx,                    \* handle_envelope: the group the loop is at
    already_sent,         \* handle_envelope: the set already_sent
    first_group,          \* per address, the first group that expanded to it
    dropped,              \* the addresses line 620 took out of an expansion
    delivers,             \* the calls of deliver made for the message
    errorCalls,           \* the calls of handle_error
    failures,             \* the kinds of exception raised while processing
    reply,                \* what process_message returned
    \* ---- get_period ----
    prefix,               \* the argument `prefix`
    postfix,              \* the argument `postfix`
    base_period,          \* the argument `current_period`
    qpc,                  \* position inside get_period
    postfix_period,       \* the local `period` once the postfix is read
    period_result,        \* what get_period returned or raised
    \* ---- Envelope.recipients ----
    header_lines,         \* the recipient header lines of self.message
    rcpttos,              \* self.rcpttos
    epc,                  \* position inside Envelope.recipients
    visible_recipients,   \* the dict visible_recipients, in insertion order
    result,               \* the list result
    \* ---- get_current_period ----
    cached_value,         \* get_current_period.cached_value
    period_calls,         \* the calls made: what the fact source did, what
                          \* the call returned, whether a change was logged
    \* ---- parse_alias (its arguments db and tk are declared above) ----
    alias_name,           \* the argument `alias`
    apc,                  \* position inside parse_alias
    matcher_calls,        \* the matchers called, in order
    match,                \* what the last matcher called answered
    alias_result,         \* what parse_alias returned or raised
    \* ---- handle_envelope, the envelopes of the grouped path ----
    heap,                 \* the Envelope objects: headers of the message,
                          \* mailfrom, rcpttos
    original_envelope,    \* the object the name original_envelope is bound to
    envelope,             \* the object the name envelope is bound to
    group_count,          \* len(recipients)
    group_no,             \* the group the loop is at
    cpc,                  \* position inside the loop
    sent_addresses,       \* the set already_sent
    hook_answers,         \* per group, what get_envelope_received and
                          \* get_extra_headers answered
    handed                \* the messages handed to deliver

parseVars == << recipient, db, tk, ppc, personIdOps, invalid_recipients,
                aliasCalls, recipient_ids, origin, presult >>

fwdVars == << fpc, envelope_rcpts, rcptIdx, translated, invalid, recipients, subject,
              groupIdx, already_sent, first_group, dropped, delivers, errorCalls, failures, reply >>

periodVars == << prefix, postfix, base_period, qpc, postfix_period, period_result >>

envVars == << header_lines, rcpttos, epc, visible_recipients, result >>

cacheVars == << cached_value, period_calls >>

aliasVars == << alias_name, apc, matcher_calls, match, alias_result >>

copyVars == << heap, original_envelope, envelope, group_count, group_no, cpc,
               sent_addresses, hook_answers, handed >>

vars == << parseVars, fwdVars, periodVars, envVars, cacheVars, aliasVars, copyVars >>

\* the variables a call leaves alone because they belong to other calls
othersParse == << fwdVars, periodVars, envVars, cacheVars, aliasVars, copyVars >>
othersFwd == << parseVars, periodVars, envVars, cacheVars, aliasVars, copyVars >>
othersPeriod == << parseVars, fwdVars, envVars, cacheVars, aliasVars, copyVars >>
othersEnv == << parseVars, fwdVars, periodVars, cacheVars, aliasVars, copyVars >>
othersCache == << parseVars, fwdVars, periodVars, envVars, aliasVars, copyVars >>
othersAlias == << parseVars, fwdVars, periodVars, envVars, cacheVars, copyVars >>
othersCopy == << parseVars, fwdVars, periodVars, envVars, cacheVars, aliasVars >>

\* ------------------------------------------------------------------------
\* Helpers
\* ------------------------------------------------------------------------

Range(s) == { s[i] : i \in 1..Len(s) }

SeqsUpTo(S, n) == UNION { [1..k -> S] : k \in 0..n }

Min(S) == CHOOSE x \in S : \A y \in S : x <= y

\* ------------------------------------------------------------------------
\* tkmail/address.py
\* ------------------------------------------------------------------------

Signs == {"+", "-"}
Letters == {"A", "B"}
Alphabet == Signs \cup Letters

\* the alias classes of namedtuples
GroupAlias(name) == [type |-> "GroupAlias", name |-> name]
PeriodAlias(kind, period, name) ==
    [type |-> "PeriodAlias", kind |-> kind, period |-> period, name |-> name]
DirectAlias(pk, name) == [type |-> "DirectAlias", pk |-> pk, name |-> name]

\* re.findall(r'([+-]?)([^+-]+)', recipient): the end of the run of
\* non-sign symbols that starts at `start`
RunEnd(s, start) ==
    CHOOSE j \in start..Len(s) :
        /\ \A k \in start..j : s[k] \notin Signs
        /\ (j = Len(s) \/ s[j + 1] \in Signs)

RECURSIVE FindAllFrom(_, _)
FindAllFrom(s, i) ==
    IF i > Len(s) THEN << >>
    ELSE LET start == IF s[i] \in Signs THEN i + 1 ELSE i
             sign  == IF s[i] \in Signs THEN s[i] ELSE ""
         IN  IF start > Len(s) \/ s[start] \in Signs
             THEN FindAllFrom(s, i + 1)
             ELSE << [sign |-> sign, name |-> SubSeq(s, start, RunEnd(s, start))] >>
                  \o FindAllFrom(s, RunEnd(s, start) + 1)

FindAll(s) == FindAllFrom(s, 1)

\* a lookup in a table of the database: the rows stored under `key`
Fetch(table, key) == IF key \in DOMAIN table THEN table[key] ELSE << >>

NoMatch == [match |-> "None"]

\* parse_alias_group
ParseAliasGroup(alias, d, current_period) ==
    LET matches == SelectSeq(d.groups, LAMBDA g : alias \in g.regexp)
    IN  IF Len(matches) > 1 THEN [match |-> "ValueError"]
        ELSE IF Len(matches) = 1
        THEN [match |-> "found",
              personIds |-> Fetch(d.group_members, matches[1].id),
              canonical |-> GroupAlias(matches[1].name)]
        ELSE NoMatch

\* re.match(r'^E?FU\w+$', base), over the bases tktitler can answer
IsFuTitle(base) == base \in {"FUAA", "EFUAA"}

\* parse_alias_title
ParseAliasTitle(alias, d, current_period) ==
    LET parsed == Fetch(tk, alias)
    IN  IF parsed = << >> THEN NoMatch     \* tk.parse raised ValueError
        ELSE LET base == parsed[1]
                 period == parsed[2]
                 canonical == PeriodAlias("BESTFU", period, alias)
             IN  IF base = "BESTFU"
                 THEN [match |-> "found",
                       personIds |-> Fetch(d.bestfu, << "BEST", period >>)
                                     \o Fetch(d.bestfu, << "FU", period >>),
                       canonical |-> canonical]
                 ELSE IF base \in {"BEST", "FU", "EFU"}
                 THEN [match |-> "found",
                       personIds |-> Fetch(d.bestfu, << base, period >>),
                       canonical |-> canonical]
                 ELSE IF base \in BEST \/ IsFuTitle(base)
                 THEN [match |-> "found",
                       personIds |-> Fetch(d.titles, << base, period >>),
                       canonical |-> canonical]
                 ELSE NoMatch

DigitChars == << "0", "1", "2", "3", "4", "5", "6", "7", "8", "9" >>
Digits == { DigitChars[v] : v \in 1..10 }
DigitValue(c) == (CHOOSE v \in 1..10 : DigitChars[v] = c) - 1

RECURSIVE IntOf(_)
IntOf(ds) ==
    IF ds = << >> THEN 0
    ELSE 10 * IntOf(SubSeq(ds, 1, Len(ds) - 1)) + DigitValue(ds[Len(ds)])

\* parse_alias_direct_user: re.match(r'^DIRECTUSER(\d+)$', alias)
ParseAliasDirectUser(alias, d, current_period) ==
    IF /\ Len(alias) >= 2
       /\ alias[1] = "DIRECTUSER"
       /\ \A i \in 2..Len(alias) : alias[i] \in Digits
    THEN LET pk == IntOf(Tail(alias))
         IN  [match |-> "found",
              personIds |-> Fetch(d.users, pk),
              canonical |-> DirectAlias(pk, alias)]
    ELSE NoMatch

InvalidRecipient(arg) == [kind |-> "InvalidRecipient", arg |-> arg]
ValueError == [kind |-> "ValueError"]

\* the matcher parse_alias commits to: the first that does not answer None
FirstMatch(alias, d, current_period) ==
    LET g == ParseAliasGroup(alias, d, current_period)
        t == ParseAliasTitle(alias, d, current_period)
        u == ParseAliasDirectUser(alias, d, current_period)
    IN  IF g # NoMatch THEN g ELSE IF t # NoMatch THEN t ELSE u

\* parse_alias
ParseAlias(alias, d, current_period) ==
    LET m == FirstMatch(alias, d, current_period)
    IN  IF m.match = "ValueError" THEN ValueError
        ELSE IF m = NoMatch THEN InvalidRecipient(alias)
        ELSE IF m.personIds = << >> THEN InvalidRecipient(alias)
        ELSE [kind |-> "ok", personIds |-> m.personIds, source |-> m.canonical]

\* ResolveTokens stopping at the first name that does not resolve
RECURSIVE ResolveTokensFirstOnly(_, _, _, _)
ResolveTokensFirstOnly(toks, n, d, current_period) ==
    IF n = 0
    THEN [ops |-> << >>, invalid |-> << >>, calls |-> << >>, raised |-> FALSE]
    ELSE LET before == ResolveTokensFirstOnly(toks, n - 1, d, current_period)
             r == ParseAlias(toks[n].name, d, current_period)
         IN  IF before.raised \/ before.invalid # << >> THEN before
             ELSE IF r.kind = "ValueError"
             THEN [before EXCEPT !.calls = Append(@, toks[n].name),
                                 !.raised = TRUE]
             ELSE IF r.kind = "InvalidRecipient"
             THEN [before EXCEPT !.calls = Append(@, toks[n].name),
                                 !.invalid = Append(@, r.arg)]
             ELSE [before EXCEPT
                     !.calls = Append(@, toks[n].name),
                     !.ops = Append(@,
                        [sign |-> IF toks[n].sign = "" THEN "+" ELSE toks[n].sign,
                         personIds |-> r.personIds,
                         source |-> r.source])]

\* parse_recipient, the first loop: one record of what the loop has built
\* after the tokens toks[1..n]
RECURSIVE ResolveTokens(_, _, _, _)
ResolveTokens(toks, n, d, current_period) ==
    IF n = 0
    THEN [ops |-> << >>, invalid |-> << >>, calls |-> << >>, raised |-> FALSE]
    ELSE LET before == ResolveTokens(toks, n - 1, d, current_period)
             r == ParseAlias(toks[n].name, d, current_period)
         IN  IF before.raised THEN before
             ELSE IF r.kind = "ValueError"
             THEN [before EXCEPT !.calls = Append(@, toks[n].name),
                                 !.raised = TRUE]
             ELSE IF r.kind = "InvalidRecipient"
             THEN [before EXCEPT !.calls = Append(@, toks[n].name),
                                 !.invalid = Append(@, r.arg)]
             ELSE [before EXCEPT
                     !.calls = Append(@, toks[n].name),
                     !.ops = Append(@,
                        [sign |-> IF toks[n].sign = "" THEN "+" ELSE toks[n].sign,
                         personIds |-> r.personIds,
                         source |-> r.source])]

\* FoldOp whose union keeps the origin an id already has
FoldOpFirstOrigin(acc, op) ==
    IF op.sign = "+"
    THEN [ids |-> acc.ids \cup Range(op.personIds),
          origin |-> [p \in DOMAIN acc.origin \cup Range(op.personIds) |->
                        IF p \in DOMAIN acc.origin THEN acc.origin[p]
                        ELSE op.source]]
    ELSE [ids |-> acc.ids \ Range(op.personIds),
          origin |-> [p \in DOMAIN acc.origin \ Range(op.personIds) |->
                        acc.origin[p]]]

\* FoldOp that skips every "-" token
FoldOpNoMinus(acc, op) ==
    IF op.sign = "+"
    THEN [ids |-> acc.ids \cup Range(op.personIds),
          origin |-> [p \in DOMAIN acc.origin \cup Range(op.personIds) |->
                        IF p \in Range(op.personIds) THEN op.source
                        ELSE acc.origin[p]]]
    ELSE acc

\* parse_recipient, one iteration of the second loop
FoldOp(acc, op) ==
    IF op.sign = "+"
    THEN [ids |-> acc.ids \cup Range(op.personIds),
          origin |-> [p \in DOMAIN acc.origin \cup Range(op.personIds) |->
                        IF p \in Range(op.personIds) THEN op.source
                        ELSE acc.origin[p]]]
    ELSE [ids |-> acc.ids \ Range(op.personIds),
          origin |-> [p \in DOMAIN acc.origin \ Range(op.personIds) |->
                        acc.origin[p]]]

RECURSIVE FoldOps(_, _)
FoldOps(ops, n) ==
    IF n = 0 THEN [ids |-> {}, origin |-> << >>]
    ELSE FoldOp(FoldOps(ops, n - 1), ops[n])

Max(S) == CHOOSE x \in S : \A y \in S : x >= y

\* Sorted listing the largest id first
RECURSIVE SortedDescending(_)
SortedDescending(S) ==
    IF S = {} THEN << >> ELSE << Max(S) >> \o SortedDescending(S \ {Max(S)})

\* sorted(recipient_ids)
RECURSIVE Sorted(_)
Sorted(S) == IF S = {} THEN << >> ELSE << Min(S) >> \o Sorted(S \ {Min(S)})

\* ReturnOf without the test for the empty list
ReturnOfUnchecked(rcpt, ids, org) ==
    [kind |-> "return",
     recipient_ids |-> Sorted(ids),
     origin |-> [i \in 1..Len(Sorted(ids)) |-> org[Sorted(ids)[i]]]]

\* parse_recipient, the end: raise on the empty list, else return the pair
ReturnOf(rcpt, ids, org) ==
    IF Sorted(ids) = << >> THEN InvalidRecipient(rcpt)
    ELSE [kind |-> "return",
          recipient_ids |-> Sorted(ids),
          origin |-> [i \in 1..Len(Sorted(ids)) |-> org[Sorted(ids)[i]]]]

\* parse_recipient as one function
ParseRecipient(rcpt, d, current_period) ==
    LET toks == FindAll(rcpt)
        r == ResolveTokens(toks, Len(toks), d, current_period)
        f == FoldOps(r.ops, Len(r.ops))
    IN  IF r.raised THEN ValueError
        ELSE IF r.invalid # << >> THEN InvalidRecipient(r.invalid)
        ELSE ReturnOf(rcpt, f.ids, f.origin)

\* ------------------------------------------------------------------------
\* The inputs of parse_recipient
\* ------------------------------------------------------------------------

Recipients == SeqsUpTo(Alphabet, MaxLen)

\* what a query of the database can answer
MemberLists == { << >>, << 1 >>, << 2, 1 >>, << 2, 2 >> }

NameA == << "A" >>
NameB == << "B" >>

GroupRow(id, name, regexp) == [id |-> id, name |-> name, regexp |-> regexp]

\* tktitler: no name is a title, or "B" is the title FORM of the current year
NoTitles == << >>
TitleB == (NameB :> << "FORM", DefaultPeriod >>)
TitleKey == << "FORM", DefaultPeriod >>

\* "A" and "B" each name one group
TwoGroups ==
    { [groups |-> << GroupRow(1, "ga", {NameA}), GroupRow(2, "gb", {NameB}) >>,
       group_members |-> (1 :> ma @@ 2 :> mb),
       bestfu |-> << >>, titles |-> << >>, users |-> << >>]
      : ma \in MemberLists, mb \in MemberLists }

\* "A" names a group, "B" names no group and is a title
OneGroup ==
    { [groups |-> << GroupRow(1, "ga", {NameA}) >>,
       group_members |-> (1 :> ma),
       bestfu |-> << >>, titles |-> (TitleKey :> mb), users |-> << >>]
      : ma \in MemberLists, mb \in MemberLists }

\* two patterns accept "A"
Ambiguous ==
    { [groups |-> << GroupRow(1, "ga", {NameA}), GroupRow(2, "gb", {NameA, NameB}) >>,
       group_members |-> (1 :> << 1 >> @@ 2 :> << 2 >>),
       bestfu |-> << >>, titles |-> << >>, users |-> << >>] }

\* "B" names a group and is a title as well
GroupAndTitle ==
    { [groups |-> << GroupRow(1, "ga", {NameA}), GroupRow(2, "gb", {NameB}) >>,
       group_members |-> (1 :> << 1 >> @@ 2 :> << 2 >>),
       bestfu |-> << >>, titles |-> (TitleKey :> << 1 >>), users |-> << >>] }

Databases == TwoGroups \cup OneGroup \cup Ambiguous \cup GroupAndTitle

\* the answers of tktitler that go with a database
TkTableOf(d) == IF d \in OneGroup \cup GroupAndTitle THEN TitleB ELSE NoTitles

\* no message is being processed
FwdIdle ==
    /\ fpc = "idle"
    /\ envelope_rcpts = << >>
    /\ rcptIdx = 1
    /\ translated = << >>
    /\ invalid = << >>
    /\ recipients = << >>
    /\ subject = "original"
    /\ groupIdx = 1
    /\ already_sent = {}
    /\ first_group = [a \in Addresses |-> 0]
    /\ dropped = {}
    /\ delivers = << >>
    /\ errorCalls = << >>
    /\ failures = {}
    /\ reply = "pending"

\* parse_recipient is not running
ParseIdle ==
    /\ recipient = << >>
    /\ db = << >>
    /\ tk = << >>
    /\ ppc = "idle"
    /\ personIdOps = << >>
    /\ invalid_recipients = << >>
    /\ aliasCalls = << >>
    /\ recipient_ids = {}
    /\ origin = << >>
    /\ presult = [kind |-> "none"]

NoResult == [kind |-> "none"]

\* get_period is not running
PeriodIdle ==
    /\ prefix = << >>
    /\ postfix = << >>
    /\ base_period = DefaultPeriod
    /\ qpc = "idle"
    /\ postfix_period = 0
    /\ period_result = NoResult

\* Envelope.recipients is not running
EnvIdle ==
    /\ header_lines = << >>
    /\ rcpttos = << >>
    /\ epc = "idle"
    /\ visible_recipients = << >>
    /\ result = << >>

\* get_current_period was never called: line 53
CacheIdle ==
    /\ cached_value = << >>
    /\ period_calls = << >>

\* parse_alias is not running
AliasIdle ==
    /\ alias_name = << >>
    /\ apc = "idle"
    /\ matcher_calls = << >>
    /\ match = NoMatch
    /\ alias_result = NoResult

\* parse_recipient is not running, whatever db and tk are
ParseLocalsIdle ==
    /\ recipient = << >>
    /\ ppc = "idle"
    /\ personIdOps = << >>
    /\ invalid_recipients = << >>
    /\ aliasCalls = << >>
    /\ recipient_ids = {}
    /\ origin = << >>
    /\ presult = NoResult

\* no grouped delivery is running
CopyIdle ==
    /\ heap = << >>
    /\ original_envelope = 0
    /\ envelope = 0
    /\ group_count = 0
    /\ group_no = 1
    /\ cpc = "idle"
    /\ sent_addresses = {}
    /\ hook_answers = << >>
    /\ handed = << >>

OthersParseIdle == FwdIdle /\ PeriodIdle /\ EnvIdle /\ CacheIdle /\ AliasIdle /\ CopyIdle
OthersFwdIdle == ParseIdle /\ PeriodIdle /\ EnvIdle /\ CacheIdle /\ AliasIdle /\ CopyIdle
OthersPeriodIdle == ParseIdle /\ FwdIdle /\ EnvIdle /\ CacheIdle /\ AliasIdle /\ CopyIdle
OthersEnvIdle == ParseIdle /\ FwdIdle /\ PeriodIdle /\ CacheIdle /\ AliasIdle /\ CopyIdle
OthersCacheIdle == ParseIdle /\ FwdIdle /\ PeriodIdle /\ EnvIdle /\ AliasIdle /\ CopyIdle
OthersAliasIdle ==
    ParseLocalsIdle /\ FwdIdle /\ PeriodIdle /\ EnvIdle /\ CacheIdle /\ CopyIdle
OthersCopyIdle ==
    ParseIdle /\ FwdIdle /\ PeriodIdle /\ EnvIdle /\ CacheIdle /\ AliasIdle

InitParse ==
    /\ recipient \in Recipients
    /\ db \in Databases
    /\ tk = TkTableOf(db)
    /\ ppc = "resolve"
    /\ personIdOps = << >>
    /\ invalid_recipients = << >>
    /\ aliasCalls = << >>
    /\ recipient_ids = {}
    /\ origin = << >>
    /\ presult = NoResult
    /\ OthersParseIdle

\* lines 116-123: the loop over the tokens; a ValueError of a matcher leaves
\* parse_recipient at once
Resolve ==
    /\ ppc = "resolve"
    /\ LET toks == FindAll(recipient)
           r == ResolveTokens(toks, Len(toks), db, DefaultPeriod)
       IN  /\ personIdOps' = r.ops
           /\ invalid_recipients' = r.invalid
           /\ aliasCalls' = r.calls
           /\ IF r.raised
              THEN ppc' = "done" /\ presult' = ValueError
              ELSE ppc' = "resolved" /\ presult' = presult
    /\ UNCHANGED << recipient, db, tk, recipient_ids, origin >>
    /\ UNCHANGED othersParse

\* lines 125-126
RaiseInvalid ==
    /\ ppc = "resolved"
    /\ invalid_recipients # << >>
    /\ presult' = InvalidRecipient(invalid_recipients)
    /\ ppc' = "done"
    /\ UNCHANGED << recipient, db, tk, personIdOps, invalid_recipients,
                    aliasCalls, recipient_ids, origin >>
    /\ UNCHANGED othersParse

\* lines 128-143: the fold over personIdOps, then the sorted result
FoldAndReturn ==
    /\ ppc = "resolved"
    /\ invalid_recipients = << >>
    /\ LET f == FoldOps(personIdOps, Len(personIdOps))
       IN  /\ recipient_ids' = f.ids
           /\ origin' = f.origin
           /\ presult' = ReturnOf(recipient, f.ids, f.origin)
    /\ ppc' = "done"
    /\ UNCHANGED << recipient, db, tk, personIdOps, invalid_recipients,
                    aliasCalls >>
    /\ UNCHANGED othersParse

NextParse == Resolve \/ RaiseInvalid \/ FoldAndReturn

SpecParse == InitParse /\ [][NextParse]_vars

\* ------------------------------------------------------------------------
\* emailtunnel/__init__.py: SMTPReceiver.process_message and
\* SMTPForwarder.handle_envelope
\* ------------------------------------------------------------------------

\* envelope recipients; NoAddress is the None of a header-only entry
Rcpts == {"r1", "r2"}
NoAddress == "None"

\* what translate_recipient puts into the list it returns
Str(a) == [kind |-> "str", id |-> a]
EmptyStr == [kind |-> "str", id |-> 0]
NoneTarget == [kind |-> "None", id |-> 0]
Group(n) == [kind |-> "group", id |-> n]
Targets == { Str(a) : a \in Addresses } \cup { EmptyStr, NoneTarget, Group(1) }

\* line 587: `if r`
Truthy(r) == r # EmptyStr /\ r # NoneTarget
\* IsStr that takes every target for a string
IsStrAlways(r) == TRUE

\* line 589: isinstance(r, str)
IsStr(r) == r.kind = "str"

\* what get_group_recipients returns
Expansions == SeqsUpTo(Addresses, 2)

InvalidRecipientReply == "550 Requested action not taken: mailbox unavailable"
ErrorReplyAccepted == "None"
ErrorReply == "451 Requested action aborted: error in processing"
Accepted == "None"

\* Handler.handle_DATA
HandleDATA(status) == IF status = Accepted THEN "250 OK" ELSE status

\* lines 473-476: the entry of the list invalid for an InvalidRecipient
\* raised with nargs arguments, the first of them the recipient
InvalidEntry(rcptto, nargs) ==
    IF nargs = 1 THEN [entry |-> "arg", rcptto |-> rcptto]
    ELSE [entry |-> "exception", rcptto |-> rcptto]

\* RaisesInvalid that never raises
RaisesInvalidNever(inv) == FALSE

\* line 483: `if invalid`
RaisesInvalid(inv) == inv # << >>

\* RemainingTargets that forgets what was sent
RemainingTargetsAll(expansion, sent) == Range(expansion)

\* lines 618-620
RemainingTargets(expansion, sent) == Range(expansion) \ sent

\* NextSent that stores nothing
NextSentUnchanged(sent, group_recipients) == sent

\* line 624
NextSent(sent, group_recipients) == sent \cup group_recipients

\* DeliverRaises with the failure of deliver swallowed
DeliverRaisesNever(ok) == FALSE

\* line 629: deliver is called outside any try; its exception leaves the loop
DeliverRaises(ok) == ~ok

\* lines 383-389 and 394-402: the except clauses of process_message:
\* handle_error is called, what it raises is logged and dropped, and 451 is
\* the answer
Abort(kind, hasEnvelope) ==
    /\ \E raised \in BOOLEAN :
          errorCalls' = Append(errorCalls,
                               [envelope |-> hasEnvelope, raised |-> raised])
    /\ failures' = failures \cup {kind}
    /\ reply' = ErrorReply
    /\ fpc' = "done"

\* first_group once the group at groupIdx has expanded to e
FirstGroupAfter(e) ==
    [a \in Addresses |->
        IF first_group[a] = 0 /\ a \in Range(e) THEN groupIdx ELSE first_group[a]]

\* the lists envelope.recipients() can give; addresses are opaque, so the
\* first address of a list is called r1
EnvelopeRcpts ==
    { s \in SeqsUpTo(Rcpts \cup {NoAddress}, MaxRcpts) :
        \A k \in 1..Len(s) : s[k] = "r2" => \E j \in 1..(k - 1) : s[j] = "r1" }

InitFwd ==
    /\ OthersFwdIdle
    /\ fpc = "construct"
    /\ envelope_rcpts \in EnvelopeRcpts
    /\ rcptIdx = 1
    /\ translated = << >>
    /\ invalid = << >>
    /\ recipients = << >>
    /\ subject = "original"
    /\ groupIdx = 1
    /\ already_sent = {}
    /\ first_group = [a \in Addresses |-> 0]
    /\ dropped = {}
    /\ delivers = << >>
    /\ errorCalls = << >>
    /\ failures = {}
    /\ reply = "pending"

\* lines 379-389: Message(data) and Envelope(...) succeed or raise
Construct ==
    /\ fpc = "construct"
    /\ \/ /\ fpc' = "log_receipt"
          /\ UNCHANGED << errorCalls, failures, reply >>
       \/ Abort("construct", FALSE)
    /\ UNCHANGED << envelope_rcpts, rcptIdx, translated, invalid, recipients, subject,
                    groupIdx, already_sent, first_group, dropped, delivers >>
    /\ UNCHANGED othersFwd

\* line 392: log_receipt returns or raises
LogReceipt ==
    /\ fpc = "log_receipt"
    /\ \/ /\ fpc' = "resolve"
          /\ UNCHANGED << errorCalls, failures, reply >>
       \/ Abort("other", TRUE)
    /\ UNCHANGED << envelope_rcpts, rcptIdx, translated, invalid, recipients, subject,
                    groupIdx, already_sent, first_group, dropped, delivers >>
    /\ UNCHANGED othersFwd

\* lines 467-469: an entry without an envelope recipient is passed over
SkipHeaderOnly ==
    /\ fpc = "resolve"
    /\ rcptIdx <= Len(envelope_rcpts)
    /\ envelope_rcpts[rcptIdx] = NoAddress
    /\ rcptIdx' = rcptIdx + 1
    /\ UNCHANGED << fpc, envelope_rcpts, translated, invalid, recipients, subject,
                    groupIdx, already_sent, first_group, dropped, delivers, errorCalls, failures,
                    reply >>
    /\ UNCHANGED othersFwd

\* lines 470-481: translate_recipient returns a list
TranslateReturns ==
    /\ fpc = "resolve"
    /\ rcptIdx <= Len(envelope_rcpts)
    /\ envelope_rcpts[rcptIdx] # NoAddress
    /\ \E t \in SeqsUpTo(Targets, MaxTargets - Len(recipients)) :
          recipients' = recipients \o t
    /\ translated' = Append(translated,
                            [rcptto |-> envelope_rcpts[rcptIdx], outcome |-> "list"])
    /\ rcptIdx' = rcptIdx + 1
    /\ UNCHANGED << fpc, envelope_rcpts, invalid, subject, groupIdx, already_sent,
                    first_group, dropped, delivers, errorCalls, failures, reply >>
    /\ UNCHANGED othersFwd

\* lines 472-476: translate_recipient raises InvalidRecipient
TranslateInvalid ==
    /\ fpc = "resolve"
    /\ rcptIdx <= Len(envelope_rcpts)
    /\ envelope_rcpts[rcptIdx] # NoAddress
    /\ \E nargs \in {1, 2} :
          invalid' = Append(invalid, InvalidEntry(envelope_rcpts[rcptIdx], nargs))
    /\ translated' = Append(translated,
                            [rcptto |-> envelope_rcpts[rcptIdx],
                             outcome |-> "InvalidRecipient"])
    /\ failures' = failures \cup {"InvalidRecipient"}
    /\ rcptIdx' = rcptIdx + 1
    /\ UNCHANGED << fpc, envelope_rcpts, recipients, subject, groupIdx, already_sent,
                    first_group, dropped, delivers, errorCalls, reply >>
    /\ UNCHANGED othersFwd

\* lines 471 and 478-480: translate_recipient raises another exception, or
\* returns a string and get_envelope_recipients raises ValueError; neither
\* is caught before process_message
TranslateFails ==
    /\ fpc = "resolve"
    /\ rcptIdx <= Len(envelope_rcpts)
    /\ envelope_rcpts[rcptIdx] # NoAddress
    /\ \E outcome \in {"str", "error"} :
          translated' = Append(translated,
                               [rcptto |-> envelope_rcpts[rcptIdx], outcome |-> outcome])
    /\ Abort("other", TRUE)
    /\ UNCHANGED << envelope_rcpts, rcptIdx, invalid, recipients, subject, groupIdx,
                    already_sent, first_group, dropped, delivers >>
    /\ UNCHANGED othersFwd

\* lines 483-484 and 575-580: InvalidRecipient(invalid) is raised and caught;
\* log_invalid_recipient and handle_invalid_recipient return, and 550 is the
\* answer, or one of them raises
RejectInvalid ==
    /\ fpc = "resolve"
    /\ rcptIdx > Len(envelope_rcpts)
    /\ RaisesInvalid(invalid)
    /\ \/ /\ reply' = InvalidRecipientReply
          /\ fpc' = "done"
          /\ UNCHANGED << errorCalls, failures >>
       \/ Abort("other", TRUE)
    /\ UNCHANGED << envelope_rcpts, rcptIdx, translated, invalid, recipients, subject,
                    groupIdx, already_sent, first_group, dropped, delivers >>
    /\ UNCHANGED othersFwd

\* lines 486 and 582-589: the list is returned; translate_subject answers
\* None or a new subject, or raises; falsy targets are dropped and the path
\* is chosen
TranslateSubject ==
    /\ fpc = "resolve"
    /\ rcptIdx > Len(envelope_rcpts)
    /\ ~RaisesInvalid(invalid)
    /\ \/ /\ \E new_subject \in {"None", "translated"} :
                subject' = IF new_subject = "None" THEN subject ELSE new_subject
          /\ recipients' = SelectSeq(recipients, Truthy)
          /\ fpc' = IF \A k \in 1..Len(recipients) :
                         Truthy(recipients[k]) => IsStr(recipients[k])
                    THEN "flat" ELSE "grouped"
          /\ UNCHANGED << errorCalls, failures, reply >>
       \/ /\ Abort("other", TRUE)
          /\ UNCHANGED << subject, recipients >>
    /\ UNCHANGED << envelope_rcpts, rcptIdx, translated, invalid, groupIdx, already_sent,
                    first_group, dropped, delivers >>
    /\ UNCHANGED othersFwd

\* lines 593-602: one delivery to sorted(set(recipients)); a hook
\* (get_envelope_mailfrom, get_envelope_received) or add_received_line
\* raises before it, or deliver returns or raises
DeliverFlat ==
    /\ fpc = "flat"
    /\ \/ /\ Abort("other", TRUE)
          /\ UNCHANGED delivers
       \/ \E ok \in BOOLEAN :
            /\ delivers' = Append(delivers,
                  [group |-> 0,
                   targets |-> Sorted({ r.id : r \in Range(recipients) }),
                   ok |-> ok])
            /\ IF DeliverRaises(ok)
               THEN Abort("other", TRUE)
               ELSE /\ reply' = Accepted
                    /\ fpc' = "done"
                    /\ UNCHANGED << errorCalls, failures >>
    /\ UNCHANGED << envelope_rcpts, rcptIdx, translated, invalid, recipients, subject,
                    groupIdx, already_sent, first_group, dropped >>
    /\ UNCHANGED othersFwd

\* lines 607-615: the deep copy, get_envelope_mailfrom,
\* get_envelope_received, add_received_line or get_group_recipients raises
GroupHookFails ==
    /\ fpc = "grouped"
    /\ groupIdx <= Len(recipients)
    /\ Abort("other", TRUE)
    /\ UNCHANGED << envelope_rcpts, rcptIdx, translated, invalid, recipients, subject,
                    groupIdx, already_sent, first_group, dropped, delivers >>
    /\ UNCHANGED othersFwd

\* lines 607-622: the group expands to addresses that were all sent already
GroupSkipped ==
    /\ fpc = "grouped"
    /\ groupIdx <= Len(recipients)
    /\ \E e \in Expansions :
          /\ RemainingTargets(e, already_sent) = {}
          /\ first_group' = FirstGroupAfter(e)
          /\ dropped' = dropped \cup (Range(e) \cap already_sent)
    /\ groupIdx' = groupIdx + 1
    /\ UNCHANGED << fpc, envelope_rcpts, rcptIdx, translated, invalid, recipients,
                    subject, already_sent, delivers, errorCalls, failures, reply >>
    /\ UNCHANGED othersFwd

\* lines 607-629: the group expands to addresses of which some remain;
\* _add_extra_headers raises, or deliver is called and returns or raises
GroupDelivered ==
    /\ fpc = "grouped"
    /\ groupIdx <= Len(recipients)
    /\ \E e \in Expansions :
          /\ RemainingTargets(e, already_sent) # {}
          /\ first_group' = FirstGroupAfter(e)
          /\ dropped' = dropped \cup (Range(e) \cap already_sent)
          /\ already_sent' = NextSent(already_sent, RemainingTargets(e, already_sent))
          /\ \/ /\ Abort("other", TRUE)
                /\ UNCHANGED << groupIdx, delivers >>
             \/ \E ok \in BOOLEAN :
                  /\ delivers' = Append(delivers,
                        [group |-> groupIdx,
                         targets |-> Sorted(RemainingTargets(e, already_sent)),
                         ok |-> ok])
                  /\ IF DeliverRaises(ok)
                     THEN Abort("other", TRUE) /\ UNCHANGED groupIdx
                     ELSE /\ groupIdx' = groupIdx + 1
                          /\ UNCHANGED << fpc, errorCalls, failures, reply >>
    /\ UNCHANGED << envelope_rcpts, rcptIdx, translated, invalid, recipients, subject >>
    /\ UNCHANGED othersFwd

\* line 629 and lines 393, 312: the loop ends, handle_envelope returns None
GroupsDone ==
    /\ fpc = "grouped"
    /\ groupIdx > Len(recipients)
    /\ reply' = Accepted
    /\ fpc' = "done"
    /\ UNCHANGED << envelope_rcpts, rcptIdx, translated, invalid, recipients, subject,
                    groupIdx, already_sent, first_group, dropped, delivers, errorCalls, failures >>
    /\ UNCHANGED othersFwd

NextFwd ==
    \/ Construct
    \/ LogReceipt
    \/ SkipHeaderOnly
    \/ TranslateReturns
    \/ TranslateInvalid
    \/ TranslateFails
    \/ RejectInvalid
    \/ TranslateSubject
    \/ DeliverFlat
    \/ GroupHookFails
    \/ GroupSkipped
    \/ GroupDelivered
    \/ GroupsDone

SpecFwd == InitFwd /\ [][NextFwd]_vars

\* ------------------------------------------------------------------------
\* tkmail/address.py: parse_alias, matcher by matcher
\* ------------------------------------------------------------------------

\* the matchers with the title matcher tried first
MatchersTitleFirst == << "title", "group", "direct" >>

\* lines 205-209
Matchers == << "group", "title", "direct" >>

\* line 212: f(alias, db, current_period)
CallMatcher(f, name, d, current_period) ==
    CASE f = "group" -> ParseAliasGroup(name, d, current_period)
      [] f = "title" -> ParseAliasTitle(name, d, current_period)
      [] f = "direct" -> ParseAliasDirectUser(name, d, current_period)

\* the names parse_alias is called with
NameC == << "C" >>
DirectUser1 == << "DIRECTUSER", "1" >>
NoDirectUser == << "DIRECTUSER" >>
AliasNames == { NameA, NameB, NameC, DirectUser1, NoDirectUser }

\* the rows of db.get_groups() and their members
GroupTables(ma) ==
    { [groups |-> << >>, group_members |-> << >>],
      [groups |-> << GroupRow(1, "ga", {NameA}) >>, group_members |-> (1 :> ma)],
      [groups |-> << GroupRow(1, "ga", {NameA, DirectUser1}),
                     GroupRow(2, "gb", {NameB}) >>,
       group_members |-> (1 :> ma @@ 2 :> << 2 >>)],
      [groups |-> << GroupRow(1, "ga", {NameA}), GroupRow(2, "gb", {NameA, NameB}) >>,
       group_members |-> (1 :> ma @@ 2 :> << 2 >>)] }

\* the answers of tktitler.parse: the names it does not know raise ValueError
TitleTables ==
    { NoTitles,
      (NameA :> << "FORM", DefaultPeriod >>),
      (NameA :> << "BESTFU", DefaultPeriod >> @@ NameB :> << "EFUAA", DefaultPeriod >>),
      (NameA :> << "XX", DefaultPeriod >> @@ DirectUser1 :> << "FU", DefaultPeriod >>) }

AliasDatabases ==
    { [groups |-> g.groups,
       group_members |-> g.group_members,
       bestfu |-> (<< "BEST", DefaultPeriod >> :> mt @@ << "FU", DefaultPeriod >> :> << 2 >>),
       titles |-> (<< "FORM", DefaultPeriod >> :> mt @@ << "EFUAA", DefaultPeriod >> :> << 2 >>),
       users |-> (1 :> mu)]
      : g \in UNION { GroupTables(ma) : ma \in MemberLists },
        mt \in MemberLists, mu \in { << >>, << 1 >> } }

InitAlias ==
    /\ alias_name \in AliasNames
    /\ db \in AliasDatabases
    /\ tk \in TitleTables
    /\ apc = "matchers"
    /\ matcher_calls = << >>
    /\ match = NoMatch
    /\ alias_result = NoResult
    /\ OthersAliasIdle

\* lines 211-214: the next matcher is called; it answers a match and the
\* loop is left, or None and the loop goes on, or it raises
TryMatcher ==
    /\ apc = "matchers"
    /\ Len(matcher_calls) < Len(Matchers)
    /\ LET f == Matchers[Len(matcher_calls) + 1]
           m == CallMatcher(f, alias_name, db, DefaultPeriod)
       IN  /\ matcher_calls' = Append(matcher_calls, f)
           /\ IF m.match = "ValueError"
              THEN /\ alias_result' = ValueError
                   /\ apc' = "done"
                   /\ UNCHANGED match
              ELSE /\ match' = m
                   /\ apc' = IF m # NoMatch THEN "fetch" ELSE "matchers"
                   /\ UNCHANGED alias_result
    /\ UNCHANGED alias_name
    /\ UNCHANGED othersAlias

\* lines 215-216: the loop ends without a match
NoMatcherAccepts ==
    /\ apc = "matchers"
    /\ Len(matcher_calls) = Len(Matchers)
    /\ alias_result' = InvalidRecipient(alias_name)
    /\ apc' = "done"
    /\ UNCHANGED << alias_name, matcher_calls, match >>
    /\ UNCHANGED othersAlias

\* lines 218-223: match() is called
FetchMembers ==
    /\ apc = "fetch"
    /\ alias_result' =
          IF match.personIds = << >> THEN InvalidRecipient(alias_name)
          ELSE [kind |-> "ok", personIds |-> match.personIds,
                source |-> match.canonical]
    /\ apc' = "done"
    /\ UNCHANGED << alias_name, matcher_calls, match >>
    /\ UNCHANGED othersAlias

NextAlias == TryMatcher \/ NoMatcherAccepts \/ FetchMembers

SpecAlias == InitAlias /\ [][NextAlias]_vars

\* ------------------------------------------------------------------------
\* tkmail/address.py: get_period
\* ------------------------------------------------------------------------

\* the characters of the regular expression r"([KGBOT])([0-9]*)"
PrefixLetters == {"K", "G", "B", "O", "T"}

\* prefix_value = dict(K=-1, G=1, B=2, O=3, T=1)
PrefixValueUnsigned(base) ==
    IF base = "K" THEN 1
    ELSE IF base = "B" THEN 2
    ELSE IF base = "O" THEN 3
    ELSE 1

PrefixValue(base) ==
    IF base = "K" THEN -1
    ELSE IF base = "B" THEN 2
    ELSE IF base = "O" THEN 3
    ELSE 1

\* the end of the run of digits that follows position i (i when none does)
DigitRunEnd(s, i) ==
    CHOOSE j \in i..Len(s) :
        /\ \A k \in (i + 1)..j : s[k] \in Digits
        /\ (j = Len(s) \/ s[j + 1] \notin Digits)

\* re.findall(r"([KGBOT])([0-9]*)", prefix) from position i on
RECURSIVE FindAllPrefix(_, _)
FindAllPrefix(s, i) ==
    IF i > Len(s) THEN << >>
    ELSE IF s[i] \notin PrefixLetters THEN FindAllPrefix(s, i + 1)
    ELSE << [base |-> s[i], exponent |-> SubSeq(s, i + 1, DigitRunEnd(s, i))] >>
         \o FindAllPrefix(s, DigitRunEnd(s, i) + 1)

\* lines 265-268: grad after the first n matches
RECURSIVE Grad(_, _)
Grad(matches, n) ==
    IF n = 0 THEN 0
    ELSE LET exponent == IF matches[n].exponent = << >> THEN 1
                         ELSE IntOf(matches[n].exponent)
         IN  Grad(matches, n - 1) + PrefixValue(matches[n].base) * exponent

\* PairYear that puts every pair into the last century
PairYearLastCentury(year) == 1900 + year

\* lines 245-248 and 256-259
PairYear(year) == IF year > 56 THEN 1900 + year ELSE 2000 + year

\* lines 234-261: the period of the postfix, or the exception raised
PeriodOfPostfix(post, current_period) ==
    IF post = << >> THEN [kind |-> "return", value |-> current_period]
    ELSE IF Len(post) = 4
    THEN LET first == IntOf(SubSeq(post, 1, 2))
             second == IntOf(SubSeq(post, 3, 4))
         IN  IF (first + 1) % 100 = second
             THEN [kind |-> "return", value |-> PairYear(first)]
             ELSE IF first \in {19, 20}
             THEN [kind |-> "return", value |-> IntOf(post)]
             ELSE InvalidRecipient(post)
    ELSE IF Len(post) = 2
    THEN [kind |-> "return", value |-> PairYear(IntOf(SubSeq(post, 1, 2)))]
    ELSE InvalidRecipient(post)

\* get_period
GetPeriod(pre, post, current_period) ==
    LET p == PeriodOfPostfix(post, current_period)
        matches == FindAllPrefix(pre, 1)
    IN  IF p.kind = "return"
        THEN [kind |-> "return", value |-> p.value - Grad(matches, Len(matches))]
        ELSE p

\* the inputs of get_period
PrefixAlphabet == PrefixLetters \cup {"0", "2"}
Prefixes == SeqsUpTo(PrefixAlphabet, MaxPrefixLen)

Pairs == { << "0", "0" >>, << "1", "4" >>, << "1", "5" >>, << "1", "9" >>,
           << "2", "0" >>, << "5", "6" >>, << "5", "7" >>, << "9", "9" >> }
Postfixes ==
    { << >>, << "1" >>, << "1", "4", "1" >> }
    \cup Pairs \cup { a \o b : a \in Pairs, b \in Pairs }

BasePeriods == {1999, DefaultPeriod}

InitPeriod ==
    /\ prefix \in Prefixes
    /\ postfix \in Postfixes
    /\ base_period \in BasePeriods
    /\ qpc = "postfix"
    /\ postfix_period = 0
    /\ period_result = NoResult
    /\ OthersPeriodIdle

\* lines 234-261: the postfix gives the period, or InvalidRecipient(postfix)
\* is raised
DecodePostfix ==
    /\ qpc = "postfix"
    /\ LET p == PeriodOfPostfix(postfix, base_period)
       IN  IF p.kind = "return"
           THEN /\ postfix_period' = p.value
                /\ qpc' = "prefix"
                /\ UNCHANGED period_result
           ELSE /\ period_result' = p
                /\ qpc' = "done"
                /\ UNCHANGED postfix_period
    /\ UNCHANGED << prefix, postfix, base_period >>
    /\ UNCHANGED othersPeriod

\* lines 263-270: the prefix gives grad, and period - grad is returned
EvaluatePrefix ==
    /\ qpc = "prefix"
    /\ LET matches == FindAllPrefix(prefix, 1)
       IN  period_result' = [kind |-> "return",
                             value |-> postfix_period - Grad(matches, Len(matches))]
    /\ qpc' = "done"
    /\ UNCHANGED << prefix, postfix, base_period, postfix_period >>
    /\ UNCHANGED othersPeriod

NextPeriod == DecodePostfix \/ EvaluatePrefix

SpecPeriod == InitPeriod /\ [][NextPeriod]_vars

\* ------------------------------------------------------------------------
\* emailtunnel: Envelope.recipients
\* ------------------------------------------------------------------------

\* headers = 'To Resent-To Cc Resent-Cc Bcc Resent-Bcc'.split()
Headers == << "To", "Resent-To", "Cc", "Resent-Cc", "Bcc", "Resent-Bcc" >>

\* headers.index(h)
HeaderIndex(h) == CHOOSE k \in 1..Len(Headers) : Headers[k] = h

\* a header line of the message that names one address
HeaderLine(field, address) == [field |-> field, address |-> address]

\* an entry of visible_recipients, and a triple of the result (the formatted
\* name_address of a triple is left out)
Entry(address, header) == [address |-> address, header |-> header]

\* lines 269-278: the addresses the loops visit, header by header in the
\* order of `headers`, and inside a header in the order of the message
RECURSIVE Visited(_, _)
Visited(lines, k) ==
    IF k = 0 THEN << >>
    ELSE Visited(lines, k - 1)
         \o [n \in 1..Len(SelectSeq(lines, LAMBDA l : l.field = Headers[k])) |->
               Entry(SelectSeq(lines, LAMBDA l : l.field = Headers[k])[n].address,
                     Headers[k])]

\* line 284: setdefault keeps the entry an address got first
SetDefaultKeeps(visited, n) ==
    \A m \in 1..(n - 1) : visited[m].address # visited[n].address

\* lines 268-284: visible_recipients
VisibleRecipients(lines) ==
    LET visited == Visited(lines, Len(Headers))
        kept == { n \in 1..Len(visited) : SetDefaultKeeps(visited, n) }
        nth[m \in 0..Cardinality(kept)] ==
            IF m = 0 THEN 0 ELSE Min({ n \in kept : n > nth[m - 1] })
    IN  [m \in 1..Cardinality(kept) |-> visited[nth[m]]]

\* the entry of the dict for the address; the dict holds at most one
Lookup(dict, address) == SelectSeq(dict, LAMBDA e : e.address = address)

\* lines 287-290: the triples of the first n envelope recipients, and what
\* pop left of the dict
RECURSIVE Popped(_, _, _)
Popped(rcpts, dict, n) ==
    IF n = 0 THEN [triples |-> << >>, dict |-> dict]
    ELSE LET before == Popped(rcpts, dict, n - 1)
             found == Lookup(before.dict, rcpts[n])
             header == IF found = << >> THEN "Bcc" ELSE found[1].header
         IN  [triples |-> Append(before.triples, Entry(rcpts[n], header)),
              dict |-> SelectSeq(before.dict, LAMBDA e : e.address # rcpts[n])]

\* lines 291-293: the entries left in the dict, with no envelope recipient
Unaddressed(dict) == [n \in 1..Len(dict) |-> Entry(NoAddress, dict[n].header)]

\* line 295: list.sort is stable
RECURSIVE SortByHeader(_, _)
SortByHeader(triples, k) ==
    IF k = 0 THEN << >>
    ELSE SortByHeader(triples, k - 1)
         \o SelectSeq(triples, LAMBDA t : t.header = Headers[k])

\* the inputs of Envelope.recipients
HeaderLinesOf(S) == { HeaderLine(Headers[k], a) : k \in 1..Len(Headers), a \in S }
Messages == SeqsUpTo(HeaderLinesOf(Rcpts), MaxHeaderLines)
RcptTos == SeqsUpTo(Rcpts, MaxRcptTos)

InitEnv ==
    /\ header_lines \in Messages
    /\ rcpttos \in RcptTos
    /\ epc = "scan"
    /\ visible_recipients = << >>
    /\ result = << >>
    /\ OthersEnvIdle

\* lines 267-284
ScanHeaders ==
    /\ epc = "scan"
    /\ visible_recipients' = VisibleRecipients(header_lines)
    /\ epc' = "build"
    /\ UNCHANGED << header_lines, rcpttos, result >>
    /\ UNCHANGED othersEnv

\* lines 286-296
BuildResult ==
    /\ epc = "build"
    /\ LET p == Popped(rcpttos, visible_recipients, Len(rcpttos))
       IN  /\ visible_recipients' = p.dict
           /\ result' = SortByHeader(p.triples \o Unaddressed(p.dict), Len(Headers))
    /\ epc' = "done"
    /\ UNCHANGED << header_lines, rcpttos >>
    /\ UNCHANGED othersEnv

NextEnv == ScanHeaders \/ BuildResult

SpecEnv == InitEnv /\ [][NextEnv]_vars

\* ------------------------------------------------------------------------
\* tkmail/address.py: get_current_period
\* ------------------------------------------------------------------------

\* None, and a value that is not None
None == << >>
Some(v) == << v >>

\* what db.get_current_period() answers
Periods == {DefaultPeriod - 1, DefaultPeriod}

\* line 53
InitCache ==
    /\ cached_value = None
    /\ period_calls = << >>
    /\ OthersCacheIdle

\* the cache after a failed fetch, were the assignment of line 41 to clear it
CachedAfterFailureCleared(old_value) == None

\* lines 41-45: db.get_current_period() raises before the assignment is
\* made, so the attribute keeps its value
CachedAfterFailure(old_value) == old_value

\* lines 47-50: logging.info tells of a change
ChangeLogged(old_value, new_value) == new_value # old_value /\ old_value # None

\* lines 36-51 when db.get_current_period() returns: db is the argument, or
\* the Database() of line 38 (tkmail.database is not among the sources; its
\* construction is taken to return)
CurrentPeriodFetched ==
    /\ Len(period_calls) < MaxCalls
    /\ \E fetched \in Periods :
          /\ cached_value' = Some(fetched)
          /\ period_calls' = Append(period_calls,
                [fetched |-> Some(fetched),
                 returned |-> Some(fetched),
                 logged |-> ChangeLogged(cached_value, Some(fetched))])
    /\ UNCHANGED othersCache

\* lines 36-51 when db.get_current_period() raises an Exception: it is
\* logged and the cached value is returned
CurrentPeriodFailed ==
    /\ Len(period_calls) < MaxCalls
    /\ cached_value' = CachedAfterFailure(cached_value)
    /\ period_calls' = Append(period_calls,
          [fetched |-> None,
           returned |-> CachedAfterFailure(cached_value),
           logged |-> FALSE])
    /\ UNCHANGED othersCache

NextCache == CurrentPeriodFetched \/ CurrentPeriodFailed

SpecCache == InitCache /\ [][NextCache]_vars

\* ------------------------------------------------------------------------
\* emailtunnel: the envelopes of the grouped path of handle_envelope
\* ------------------------------------------------------------------------

\* a header of a message: the value is 0 in the message received and the
\* number of the group in a header made for a group
Header(field, value) == [field |-> field, value |-> value]

\* Message.add_received_line: the header goes in front of all the others
AddReceivedLine(headers, value) == << Header("Received", value) >> \o headers

\* Message.set_unique_header: replace_header changes the first header of
\* the field in place, and the header is appended when there is none
SetUniqueHeader(headers, field, value) ==
    LET at == { n \in 1..Len(headers) : headers[n].field = field }
    IN  IF at = {} THEN Append(headers, Header(field, value))
        ELSE [headers EXCEPT ![Min(at)] = Header(field, value)]

\* lines 568-570: _add_extra_headers
RECURSIVE AddExtraHeaders(_, _, _)
AddExtraHeaders(headers, extra, n) ==
    IF n = 0 THEN headers
    ELSE SetUniqueHeader(AddExtraHeaders(headers, extra, n - 1),
                         extra[n].field, extra[n].value)

\* the name envelope left bound to the object copied
CopyTargetShared(source, fresh) == source

\* line 608: copy.deepcopy gives an object of its own
CopyTarget(source, fresh) == fresh

\* the heap once the object `target` holds a copy of the object `source`
DeepCopy(h, source, target) == (target :> h[source]) @@ h

\* the messages received
OriginalHeaders ==
    { << Header("Subject", 0) >>,
      << Header("Received", 0), Header("Sender", 0), Header("Subject", 0) >> }

\* what get_envelope_received answers for a group: None or a line
NoReceived == 0
ReceivedAnswers(g) == { NoReceived, g }

\* what get_extra_headers answers for a group
ExtraAnswers(g) ==
    { << >>, << Header("Sender", g) >>, << Header("List-Id", g), Header("Sender", g) >> }

\* what get_group_recipients answers
GroupExpansions == { << >>, << 1 >>, << 2, 1 >> }

\* lines 604-606
InitCopy ==
    /\ \E headers \in OriginalHeaders :
          heap = (0 :> [headers |-> headers, mailfrom |-> "mailfrom",
                         rcpttos |-> << "r1" >>])
    /\ original_envelope = 0
    /\ envelope = 0
    /\ group_count \in 1..MaxGroups
    /\ group_no = 1
    /\ cpc = "copy"
    /\ sent_addresses = {}
    /\ hook_answers = << >>
    /\ handed = << >>
    /\ OthersCopyIdle

\* lines 607-614: the copy is taken, the hooks answer the sender and the
\* trace line, and the line is put into the copy; or a hook raises
CopyEnvelope ==
    /\ cpc = "copy"
    /\ group_no <= group_count
    /\ LET target == CopyTarget(original_envelope, group_no)
           copied == DeepCopy(heap, original_envelope, target)
       IN  /\ envelope' = target
           /\ \/ /\ \E received \in ReceivedAnswers(group_no) :
                       /\ heap' = IF received = NoReceived THEN copied
                                  ELSE [copied EXCEPT ![target].headers =
                                          AddReceivedLine(@, received)]
                       /\ hook_answers' = Append(hook_answers,
                              [received |-> received, extra |-> << >>])
                 /\ cpc' = "expand"
              \/ /\ heap' = copied
                 /\ cpc' = "aborted"
                 /\ UNCHANGED hook_answers
    /\ UNCHANGED << original_envelope, group_count, group_no, sent_addresses, handed >>
    /\ UNCHANGED othersCopy

\* lines 615-624: the group is expanded; nothing is left of it and the loop
\* goes on, or the addresses left are stored; or get_group_recipients raises
ExpandGroup ==
    /\ cpc = "expand"
    /\ \/ \E e \in GroupExpansions :
            IF RemainingTargets(e, sent_addresses) = {}
            THEN /\ group_no' = group_no + 1
                 /\ cpc' = "copy"
                 /\ UNCHANGED sent_addresses
            ELSE /\ sent_addresses' =
                       NextSent(sent_addresses, RemainingTargets(e, sent_addresses))
                 /\ cpc' = "headers"
                 /\ UNCHANGED group_no
       \/ /\ cpc' = "aborted"
          /\ UNCHANGED << group_no, sent_addresses >>
    /\ UNCHANGED << heap, original_envelope, envelope, group_count, hook_answers, handed >>
    /\ UNCHANGED othersCopy

\* lines 628-629: the extra headers are set in the copy and its message is
\* handed to deliver, which returns or raises; or get_extra_headers raises
AddHeadersAndDeliver ==
    /\ cpc = "headers"
    /\ \/ \E extra \in ExtraAnswers(group_no), ok \in BOOLEAN :
            /\ heap' = [heap EXCEPT ![envelope].headers =
                          AddExtraHeaders(@, extra, Len(extra))]
            /\ hook_answers' = [hook_answers EXCEPT ![group_no].extra = extra]
            /\ handed' = Append(handed,
                  [group |-> group_no,
                   headers |-> AddExtraHeaders(heap[envelope].headers, extra, Len(extra)),
                   ok |-> ok])
            /\ IF DeliverRaises(ok)
               THEN cpc' = "aborted" /\ UNCHANGED group_no
               ELSE cpc' = "copy" /\ group_no' = group_no + 1
       \/ /\ cpc' = "aborted"
          /\ UNCHANGED << heap, hook_answers, handed, group_no >>
    /\ UNCHANGED << original_envelope, envelope, group_count, sent_addresses >>
    /\ UNCHANGED othersCopy

\* line 607: no group is left
GroupLoopEnds ==
    /\ cpc = "copy"
    /\ group_no > group_count
    /\ cpc' = "done"
    /\ UNCHANGED << heap, original_envelope, envelope, group_count, group_no,
                    sent_addresses, hook_answers, handed >>
    /\ UNCHANGED othersCopy

NextCopy == CopyEnvelope \/ ExpandGroup \/ AddHeadersAndDeliver \/ GroupLoopEnds

SpecCopy == InitCopy /\ [][NextCopy]_vars

\* ------------------------------------------------------------------------
\* Properties of parse_recipient (SpecParse)
\* ------------------------------------------------------------------------

Tokens == FindAll(recipient)

\* the token's name is accepted by exactly one group pattern and that group
\* has members
IsNonEmptyGroup(name) ==
    /\ Cardinality({ i \in 1..Len(db.groups) : name \in db.groups[i].regexp }) = 1
    /\ \E i \in 1..Len(db.groups) :
          /\ name \in db.groups[i].regexp
          /\ db.groups[i].id \in DOMAIN db.group_members
          /\ db.group_members[db.groups[i].id] # << >>

\* the members of the group that accepts the name
GroupMembersOf(name) ==
    UNION { Range(db.group_members[db.groups[i].id]) :
              i \in { j \in 1..Len(db.groups) : name \in db.groups[j].regexp } }

\* the recipient string holds names and "+" only, and at least one name
PlusJoined == "-" \notin Range(recipient) /\ Tokens # << >>

StrictlyAscending(s) == \A i, j \in 1..Len(s) : i < j => s[i] < s[j]

\* C6: a spec of '+'-joined names of non-empty groups returns the union of
\* the groups' members, ascending and without a repeated id.
C6_PlusJoinedGroupsGiveSortedUnion ==
    (ppc = "done" /\ PlusJoined
       /\ \A i \in 1..Len(Tokens) : IsNonEmptyGroup(Tokens[i].name))
    => /\ presult.kind = "return"
       /\ Range(presult.recipient_ids)
            = UNION { GroupMembersOf(Tokens[i].name) : i \in 1..Len(Tokens) }
       /\ StrictlyAscending(presult.recipient_ids)

\* two overlapping groups, one listed out of order, joined by "+"
C6_Witness ==
    /\ ppc = "done"
    /\ recipient = << "B", "+", "A" >>
    /\ IsNonEmptyGroup(NameA) /\ IsNonEmptyGroup(NameB)
    /\ db.group_members[1] = << 2, 1 >>
    /\ db.group_members[2] = << 2, 2 >>
    /\ presult.kind = "return"
    /\ presult.recipient_ids = << 1, 2 >>

\* the name resolves, as parse_alias decides it
Resolves(name) == ParseAlias(name, db, DefaultPeriod).kind = "ok"
MembersOf(name) == Range(ParseAlias(name, db, DefaultPeriod).personIds)

\* the recipient string is a "+" b "-" b for two names a and b that resolve
\* to disjoint member sets
IsAPlusBMinusB(a, b) ==
    /\ recipient = a \o << "+" >> \o b \o << "-" >> \o b
    /\ Resolves(a) /\ Resolves(b)
    /\ MembersOf(a) \cap MembersOf(b) = {}

Names == SeqsUpTo(Letters, MaxLen) \ { << >> }

\* the names a string of the form a "+" b "-" b is made of
SplitAt(i) == [a |-> SubSeq(recipient, 1, i - 1),
               b |-> SubSeq(recipient, i + 1, i + (Len(recipient) - i) \div 2)]

\* C7: "A+B-B" returns what "A" returns, ids and origins, when A and B
\* resolve to disjoint non-empty member sets.
C7_AddThenSubtractCancels ==
    ppc = "done" =>
      \A i \in 1..Len(recipient) :
         (/\ recipient[i] = "+"
          /\ SplitAt(i).a \in Names /\ SplitAt(i).b \in Names
          /\ IsAPlusBMinusB(SplitAt(i).a, SplitAt(i).b))
         => presult = ParseRecipient(SplitAt(i).a, db, DefaultPeriod)

C7_Witness ==
    /\ ppc = "done"
    /\ IsAPlusBMinusB(NameA, NameB)
    /\ Len(personIdOps) = 3
    /\ presult.kind = "return"
    /\ presult.recipient_ids = << 1 >>

\* the token's name does not resolve: no matcher accepts it, or the matcher
\* that accepts it fetches no member
FailsToResolve(name) == ParseAlias(name, db, DefaultPeriod).kind = "InvalidRecipient"

\* a matcher raises an error that is not InvalidRecipient for the name
RaisesOtherError(name) == ParseAlias(name, db, DefaultPeriod).kind = "ValueError"

TokenNames == [i \in 1..Len(Tokens) |-> Tokens[i].name]

AllFailuresReported ==
    /\ aliasCalls = TokenNames
    /\ presult = InvalidRecipient(SelectSeq(TokenNames, FailsToResolve))

\* C8 as claimed: whenever a token fails to resolve, every token is resolved
\* and one InvalidRecipient carries the failing names, in token order.
C8_Original_EveryFailureCollected ==
    (ppc = "done" /\ \E i \in 1..Len(Tokens) : FailsToResolve(Tokens[i].name))
    => AllFailuresReported

\* C8 amended: the same, for the specs none of whose names is accepted by
\* more than one group pattern (the ValueError of parse_alias_group is not
\* caught and leaves parse_recipient at the token that raised it).
C8_EveryFailureCollected ==
    (/\ ppc = "done"
     /\ \E i \in 1..Len(Tokens) : FailsToResolve(Tokens[i].name)
     /\ \A i \in 1..Len(Tokens) : ~RaisesOtherError(Tokens[i].name))
    => AllFailuresReported

\* two names fail, one between them resolves
C8_Witness ==
    /\ ppc = "done"
    /\ Len(Tokens) = 3
    /\ FailsToResolve(Tokens[1].name)
    /\ Resolves(Tokens[2].name)
    /\ FailsToResolve(Tokens[3].name)
    /\ presult = InvalidRecipient(<< Tokens[1].name, Tokens[3].name >>)
    /\ Len(aliasCalls) = 3

\* the id is added by a "+" token that no later "-" token takes away
Survives(x) ==
    \E i \in 1..Len(personIdOps) :
       /\ personIdOps[i].sign = "+"
       /\ x \in Range(personIdOps[i].personIds)
       /\ \A j \in (i + 1)..Len(personIdOps) :
             personIdOps[j].sign = "-" => x \notin Range(personIdOps[j].personIds)

AllIds == UNION { Range(personIdOps[i].personIds) : i \in 1..Len(personIdOps) }

AllTokensResolve == \A i \in 1..Len(Tokens) : Resolves(Tokens[i].name)

\* C9: when every token resolves and the fold leaves no id, InvalidRecipient
\* carries the whole spec; no return has an empty id list.
C9_EmptyFoldIsInvalidRecipient ==
    ppc = "done" =>
      /\ (AllTokensResolve /\ \A x \in AllIds : ~Survives(x))
            => presult = InvalidRecipient(recipient)
      /\ presult.kind = "return" => Len(presult.recipient_ids) >= 1

\* "A-A"
C9_Witness ==
    /\ ppc = "done"
    /\ recipient = << "A", "-", "A" >>
    /\ Len(personIdOps) = 2
    /\ presult = InvalidRecipient(recipient)

\* the last "+" token whose members include the id
LastPlus(x) ==
    CHOOSE i \in 1..Len(personIdOps) :
       /\ personIdOps[i].sign = "+" /\ x \in Range(personIdOps[i].personIds)
       /\ \A j \in (i + 1)..Len(personIdOps) :
             ~(personIdOps[j].sign = "+" /\ x \in Range(personIdOps[j].personIds))

\* C10: a returned pair is well formed: ids strictly ascending, as many
\* origins as ids, each origin that of the last "+" token holding the id;
\* the ids returned are those no later "-" token removed, and the dict
\* origin holds an entry for exactly those.
C10_ResultWellFormed ==
    (ppc = "done" /\ presult.kind = "return")
    => /\ StrictlyAscending(presult.recipient_ids)
       /\ Len(presult.origin) = Len(presult.recipient_ids)
       /\ Range(presult.recipient_ids) = { x \in AllIds : Survives(x) }
       /\ DOMAIN origin = Range(presult.recipient_ids)
       /\ \A i \in 1..Len(presult.recipient_ids) :
             presult.origin[i] = personIdOps[LastPlus(presult.recipient_ids[i])].source

\* two ids with different origins, one of them an id of two "+" tokens of
\* different origins
C10_Witness ==
    /\ ppc = "done"
    /\ presult.kind = "return"
    /\ Len(presult.recipient_ids) = 2
    /\ presult.origin[1] # presult.origin[2]
    /\ \E i, j \in 1..Len(personIdOps) :
          /\ i < j
          /\ personIdOps[i].sign = "+" /\ personIdOps[j].sign = "+"
          /\ personIdOps[i].source # personIdOps[j].source
          /\ Range(personIdOps[i].personIds) \cap Range(personIdOps[j].personIds) # {}

\* ------------------------------------------------------------------------
\* Properties of process_message and handle_envelope (SpecFwd)
\* ------------------------------------------------------------------------

\* the deliver calls of the grouped path
GroupDelivers == { k \in 1..Len(delivers) : delivers[k].group >= 1 }

TargetsOf(k) == Range(delivers[k].targets)

\* this step calls deliver
DeliverCalled == Len(delivers') = Len(delivers) + 1

\* C1: in grouped delivery no address is in the target list of two deliver
\* calls of a message: already_sent only grows, and the target list of every
\* deliver call is disjoint from already_sent as it was before the call.
C1_NoAddressDeliveredTwice ==
    /\ [](\A m, n \in GroupDelivers : m # n => TargetsOf(m) \cap TargetsOf(n) = {})
    /\ [][/\ already_sent \subseteq already_sent'
          /\ (DeliverCalled /\ fpc = "grouped")
                => Range(delivers'[Len(delivers')].targets) \cap already_sent = {}
       ]_vars

\* two deliveries, the second for a group that expanded to an address sent
\* before
C1_Witness ==
    /\ Len(delivers) = 2
    /\ delivers[1].group >= 1
    /\ delivers[2].group > delivers[1].group
    /\ dropped # {}
    /\ dropped \subseteq TargetsOf(1)

\* the deliver calls whose target list holds the address
DeliversTo(a) == { k \in GroupDelivers : a \in TargetsOf(k) }

EachExpandedAddressOnce ==
    /\ \A a \in Addresses :
          first_group[a] # 0 =>
             /\ Cardinality(DeliversTo(a)) = 1
             /\ \A k \in DeliversTo(a) : delivers[k].group = first_group[a]
    /\ \A k \in GroupDelivers : delivers[k].targets # << >>

NonNullRcpts == SelectSeq(envelope_rcpts, LAMBDA r : r # NoAddress)

TranslatedRcpts == [k \in 1..Len(translated) |-> translated[k].rcptto]

FailedInvalid(t) == t.outcome = "InvalidRecipient"
FailedOtherwise(t) == t.outcome \in {"str", "error"}

SomeInvalidRecipient == \E k \in 1..Len(translated) : FailedInvalid(translated[k])

\* the list invalid holds one entry per recipient that raised
\* InvalidRecipient, in the order of the recipients
OneEntryPerFailure ==
    LET failed == SelectSeq(translated, FailedInvalid)
    IN  /\ Len(invalid) = Len(failed)
        /\ \A k \in 1..Len(failed) : invalid[k].rcptto = failed[k].rcptto

\* C3 as claimed: when translate_recipient raises InvalidRecipient for a
\* recipient, it is called for every other recipient, the list of failures
\* holds one entry per failing recipient, nothing is delivered, the subject
\* is not rewritten, and the reply is 550.
C3_Original_FullyRejects ==
    (fpc = "done" /\ SomeInvalidRecipient)
    => /\ TranslatedRcpts = NonNullRcpts
       /\ OneEntryPerFailure
       /\ delivers = << >>
       /\ subject = "original"
       /\ reply = InvalidRecipientReply

\* C3 amended: when translate_recipient raises InvalidRecipient for a
\* recipient, nothing is delivered and the subject is not rewritten; the
\* list of failures holds one entry per recipient that raised it; unless a
\* call of translate_recipient fails in another way (another exception, or a
\* string returned), it is called for every recipient; and the reply is 550
\* unless that happened or a hook of the rejection raised, and 451 then.
C3_FullyRejects ==
    (fpc = "done" /\ SomeInvalidRecipient)
    => /\ delivers = << >>
       /\ subject = "original"
       /\ OneEntryPerFailure
       /\ (\A k \in 1..Len(translated) : ~FailedOtherwise(translated[k]))
             => TranslatedRcpts = NonNullRcpts
       /\ IF "other" \in failures
          THEN reply = ErrorReply
          ELSE reply = InvalidRecipientReply

\* of two recipients the first translates and the second is invalid
C3_Witness ==
    /\ fpc = "done"
    /\ Len(translated) = 2
    /\ translated[1].outcome = "list"
    /\ translated[2].outcome = "InvalidRecipient"
    /\ recipients # << >>
    /\ Len(invalid) = 1
    /\ delivers = << >>
    /\ reply = InvalidRecipientReply

\* get_envelope_recipients raised InvalidRecipient
ResolutionRaisedInvalid ==
    /\ rcptIdx > Len(envelope_rcpts)
    /\ invalid # << >>
    /\ \A k \in 1..Len(translated) : ~FailedOtherwise(translated[k])

\* an exception other than that one was raised while processing
OtherFailure == failures \cap {"construct", "other"} # {}

Replies == {InvalidRecipientReply, ErrorReply, Accepted}

\* C4 as claimed: the reply is 550 when recipient resolution raised
\* InvalidRecipient, 451 when anything else failed, accepted otherwise; an
\* invalid-recipient failure is never answered with 451, another failure
\* never with 550 or 250.
C4_Original_ReplyByFailure ==
    fpc = "done" =>
       /\ reply \in Replies
       /\ ResolutionRaisedInvalid => reply = InvalidRecipientReply
       /\ (OtherFailure /\ ~ResolutionRaisedInvalid) => reply = ErrorReply
       /\ (~OtherFailure /\ ~ResolutionRaisedInvalid) => reply = Accepted
       /\ OtherFailure => HandleDATA(reply) \notin {InvalidRecipientReply, "250 OK"}

\* C4 amended: the reply is 451 exactly when envelope construction or any
\* other step raised something that is not the InvalidRecipient of recipient
\* resolution, the hooks log_invalid_recipient and handle_invalid_recipient
\* included; 550 exactly when resolution raised InvalidRecipient and nothing
\* else failed; accepted (250 OK) exactly when nothing failed.
C4_ReplyByFailure ==
    fpc = "done" =>
       /\ reply \in Replies
       /\ reply = ErrorReply <=> OtherFailure
       /\ reply = InvalidRecipientReply <=> (ResolutionRaisedInvalid /\ ~OtherFailure)
       /\ reply = Accepted <=> (~ResolutionRaisedInvalid /\ ~OtherFailure)
       /\ HandleDATA(reply) = "250 OK" <=> (~ResolutionRaisedInvalid /\ ~OtherFailure)

\* resolution raised InvalidRecipient and a hook of the rejection raised
C4_Witness ==
    /\ fpc = "done"
    /\ ResolutionRaisedInvalid
    /\ OtherFailure
    /\ errorCalls # << >>
    /\ reply = ErrorReply

IsPrefix(s, t) == Len(s) <= Len(t) /\ SubSeq(t, 1, Len(s)) = s

\* C5: when the deliver call for a group fails, it is the last deliver call
\* of the message, the reply is 451, no group is delivered twice, and the
\* deliveries made before stay as they were.
C5_DeliverFailureAborts ==
    /\ [](\A k \in GroupDelivers :
            /\ ~delivers[k].ok =>
                  /\ k = Len(delivers)
                  /\ fpc = "done"
                  /\ reply = ErrorReply
            /\ \A m \in GroupDelivers : m < k => delivers[m].group < delivers[k].group)
    /\ [][IsPrefix(delivers, delivers')]_vars

\* the second of three groups fails after the first was delivered
C5_Witness ==
    /\ fpc = "done"
    /\ Len(recipients) = 3
    /\ Len(delivers) = 2
    /\ delivers[1].ok /\ delivers[1].group = 1
    /\ ~delivers[2].ok /\ delivers[2].group = 2
    /\ reply = ErrorReply

\* ------------------------------------------------------------------------
\* Properties of get_period (SpecPeriod)
\* ------------------------------------------------------------------------

Postfix1920 == << "1", "9", "2", "0" >>

\* C11 as claimed: with an empty prefix the postfix "1920" gives 1920.
C11_Original_Postfix1920 ==
    (qpc = "done" /\ prefix = << >> /\ postfix = Postfix1920)
    => period_result = [kind |-> "return", value |-> 1920]

\* C11 amended: with an empty prefix the postfix "1920" gives 2019 for any
\* base period: 19 and 20 are a consecutive pair, and the pair rule comes
\* before the literal year.
C11_Postfix1920 ==
    (qpc = "done" /\ prefix = << >> /\ postfix = Postfix1920)
    => period_result = [kind |-> "return", value |-> 2019]

C11_Witness ==
    /\ qpc = "done"
    /\ prefix = << >>
    /\ postfix = Postfix1920
    /\ base_period = 1999
    /\ postfix_period = 2019
    /\ period_result.kind = "return"
    /\ period_result.value = 2019

\* the number two digits write
TwoDigit(s, i) == 10 * DigitValue(s[i]) + DigitValue(s[i + 1])

WithCentury(d) == IF d > 56 THEN 1900 + d ELSE 2000 + d

IsPair(s) == Len(s) = 4 /\ (TwoDigit(s, 1) + 1) % 100 = TwoDigit(s, 3)

IsLiteralYear(s) == Len(s) = 4 /\ ~IsPair(s) /\ TwoDigit(s, 1) \in {19, 20}

AcceptedPostfix(s) == Len(s) \in {0, 2} \/ IsPair(s) \/ IsLiteralYear(s)

Decode(s, P) ==
    IF s = << >> THEN P
    ELSE IF Len(s) = 2 THEN WithCentury(TwoDigit(s, 1))
    ELSE IF IsPair(s) THEN WithCentury(TwoDigit(s, 1))
    ELSE 100 * TwoDigit(s, 1) + TwoDigit(s, 3)

Multiplier(letter) ==
    CASE letter = "K" -> -1
      [] letter = "G" -> 1
      [] letter = "B" -> 2
      [] letter = "O" -> 3
      [] letter = "T" -> 1

\* the digits that follow position i, up to the next letter
ExponentDigits(s, i) ==
    LET stop == Min({ k \in (i + 1)..(Len(s) + 1) : k = Len(s) + 1 \/ s[k] \in PrefixLetters })
    IN  SubSeq(s, i + 1, stop - 1)

RECURSIVE Number(_)
Number(ds) == IF ds = << >> THEN 0 ELSE DigitValue(Head(ds)) * 10 ^ (Len(ds) - 1) + Number(Tail(ds))

Exponent(s, i) == IF ExponentDigits(s, i) = << >> THEN 1 ELSE Number(ExponentDigits(s, i))

RECURSIVE GradeFrom(_, _)
GradeFrom(s, i) ==
    IF i > Len(s) THEN 0
    ELSE (IF s[i] \in PrefixLetters THEN Multiplier(s[i]) * Exponent(s, i) ELSE 0)
         + GradeFrom(s, i + 1)

\* a prefix of letters with optional digit exponents
WellFormedPrefix(s) == s = << >> \/ s[1] \in PrefixLetters

\* C12: for an accepted postfix and a prefix of letters with optional
\* exponents, get_period returns decode(postfix) - grade(prefix); with both
\* empty that is the base period, and "1415" alone gives 2014.
C12_PeriodIsDecodeMinusGrade ==
    (qpc = "done" /\ AcceptedPostfix(postfix) /\ WellFormedPrefix(prefix))
    => /\ period_result = [kind |-> "return",
                           value |-> Decode(postfix, base_period) - GradeFrom(prefix, 1)]
       /\ (prefix = << >> /\ postfix = << >>)
             => period_result.value = base_period
       /\ (prefix = << >> /\ postfix = << "1", "4", "1", "5" >>)
             => period_result.value = 2014

\* "KG2" before the pair "1415": 2014 - (-1 + 2)
C12_Witness ==
    /\ qpc = "done"
    /\ prefix = << "K", "G", "2" >>
    /\ postfix = << "1", "4", "1", "5" >>
    /\ period_result = [kind |-> "return", value |-> 2013]

\* ------------------------------------------------------------------------
\* Properties of Envelope.recipients (SpecEnv)
\* ------------------------------------------------------------------------

\* the headers of the message in which the address appears
HeadersNaming(address) ==
    { l.field : l \in { header_lines[n] : n \in 1..Len(header_lines) }
                      \cap { HeaderLine(f, address) : f \in Range(Headers) } }

\* of these the one that comes first in the order of precedence
FirstHeaderNaming(address) ==
    Headers[Min({ HeaderIndex(h) : h \in HeadersNaming(address) })]

\* the triples reported for envelope recipients
Reported == SelectSeq(result, LAMBDA t : t.address # NoAddress)

Occurrences(seq, x) == Cardinality({ n \in 1..Len(seq) : seq[n] = x })

\* one triple per entry of rcpttos
EveryEntryReported ==
    \A a \in Rcpts :
       Cardinality({ n \in 1..Len(Reported) : Reported[n].address = a })
          = Occurrences(rcpttos, a)

\* each with the first header that names its address, "Bcc" when none does
ReportedUnderFirstHeader ==
    \A n \in 1..Len(Reported) :
       IF HeadersNaming(Reported[n].address) = {}
       THEN Reported[n].header = "Bcc"
       ELSE Reported[n].header = FirstHeaderNaming(Reported[n].address)

OrderedByHeader ==
    \A m, n \in 1..Len(result) :
       m < n => HeaderIndex(result[m].header) <= HeaderIndex(result[n].header)

\* C13: Envelope.recipients() reports every entry of rcpttos with the
\* header of highest precedence that names its address, "Bcc" only when no
\* header names it, and the triples are ordered by the precedence of their
\* header.
C13_FirstHeaderWins ==
    epc = "done" =>
       /\ EveryEntryReported
       /\ ReportedUnderFirstHeader
       /\ OrderedByHeader

\* C13 for envelopes in which no recipient is listed twice
C13_FirstHeaderWinsNoRepeat ==
    (epc = "done" /\ \A a \in Rcpts : Occurrences(rcpttos, a) <= 1)
    => /\ EveryEntryReported
       /\ ReportedUnderFirstHeader
       /\ OrderedByHeader

\* an address named by Cc and by To, and one named by no header
C13_Witness ==
    /\ epc = "done"
    /\ header_lines = << HeaderLine("Cc", "r1"), HeaderLine("To", "r1") >>
    /\ rcpttos = << "r2", "r1" >>
    /\ result = << Entry("r1", "To"), Entry("r2", "Bcc") >>

\* ------------------------------------------------------------------------
\* Properties of get_current_period (SpecCache)
\* ------------------------------------------------------------------------

\* the calls up to the n-th whose fetch succeeded
FetchedUpTo(n) == { m \in 1..n : period_calls[m].fetched # None }

\* the value of the most recent successful fetch up to the n-th call
LastFetched(n) ==
    IF FetchedUpTo(n) = {} THEN None
    ELSE period_calls[Max(FetchedUpTo(n))].fetched

\* this step is a call whose fetch failed
FailedCall ==
    /\ Len(period_calls') = Len(period_calls) + 1
    /\ period_calls'[Len(period_calls')].fetched = None

PlainAddress(r) == r.kind = "str" /\ r.id # 0

\* the deliver calls made with the whole list of targets
FlatDelivers == { k \in 1..Len(delivers) : delivers[k].group = 0 }

\* the ascending list, without a repeated address, of all the targets
IsAllTargetsAscending(t) ==
    /\ StrictlyAscending(t)
    /\ Range(t) = { recipients[k].id : k \in 1..Len(recipients) }

\* the path follows the targets left, and at most one call is made with all
\* of them, on the flat path only
DispatchByTargets ==
    /\ fpc = "flat" =>
          /\ \A k \in 1..Len(recipients) : PlainAddress(recipients[k])
          /\ delivers = << >>
    /\ fpc = "grouped" =>
          /\ \A k \in 1..Len(recipients) :
                PlainAddress(recipients[k]) \/ recipients[k].kind = "group"
          /\ \E k \in 1..Len(recipients) : recipients[k].kind = "group"
          /\ FlatDelivers = {}
    /\ FlatDelivers # {} =>
          /\ Len(delivers) = 1
          /\ IsAllTargetsAscending(delivers[1].targets)
          /\ \A k \in 1..Len(recipients) : PlainAddress(recipients[k])
    /\ (FlatDelivers # {} /\ delivers[1].ok) => reply = Accepted

\* this step is the one deliver call of the flat path
OneFlatDeliver ==
    /\ Len(delivers') = 1
    /\ delivers'[1].group = 0
    /\ IsAllTargetsAscending(delivers'[1].targets)
    /\ fpc' = "done"

\* C15 as claimed: the flat path is taken exactly when every target left is
\* a plain address; on it exactly one deliver call is made, with the
\* ascending list of all targets; the grouped path makes no such call.
C15_Original_FlatDeliversOnce ==
    /\ []DispatchByTargets
    /\ [][fpc = "flat" => OneFlatDeliver]_vars

\* C15 amended: the same, but on the flat path the one deliver call is made
\* unless get_envelope_mailfrom, get_envelope_received or add_received_line
\* raises before it; then no deliver call is made and the reply is 451.
C15_FlatDeliversOnce ==
    /\ []DispatchByTargets
    /\ [][fpc = "flat" =>
            \/ OneFlatDeliver
            \/ /\ delivers' = delivers
               /\ fpc' = "done"
               /\ reply' = ErrorReply
               /\ "other" \in failures'
         ]_vars

\* two translations give the same address twice and another: one deliver
\* call with both addresses in order
C15_Witness ==
    /\ fpc = "done"
    /\ recipients = << Str(2), Str(1), Str(2) >>
    /\ Len(delivers) = 1
    /\ delivers[1] = [group |-> 0, targets |-> << 1, 2 >>, ok |-> TRUE]
    /\ reply = Accepted

\* ------------------------------------------------------------------------
\* Properties of parse_alias (SpecAlias)
\* ------------------------------------------------------------------------

GroupAnswer == ParseAliasGroup(alias_name, db, DefaultPeriod)
TitleAnswer == ParseAliasTitle(alias_name, db, DefaultPeriod)
DirectAnswer == ParseAliasDirectUser(alias_name, db, DefaultPeriod)

Accepts(answer) == answer.match = "found"
Rejects(answer) == answer = NoMatch

\* what parse_alias gives once it has committed to the answer of a matcher
CommittedTo(answer) ==
    IF answer.personIds = << >> THEN InvalidRecipient(alias_name)
    ELSE [kind |-> "ok", personIds |-> answer.personIds, source |-> answer.canonical]

\* C16: parse_alias calls the matchers in the order group, title, direct
\* and commits to the first that accepts the name: members and origin are
\* that matcher's, no later matcher is called, zero members raise
\* InvalidRecipient(name), and so does a name every matcher rejects.
C16_FirstMatcherWins ==
    apc = "done" =>
       /\ \E n \in 1..3 : matcher_calls = SubSeq(<< "group", "title", "direct" >>, 1, n)
       /\ Accepts(GroupAnswer) =>
             /\ matcher_calls = << "group" >>
             /\ alias_result = CommittedTo(GroupAnswer)
       /\ (Rejects(GroupAnswer) /\ Accepts(TitleAnswer)) =>
             /\ matcher_calls = << "group", "title" >>
             /\ alias_result = CommittedTo(TitleAnswer)
       /\ (Rejects(GroupAnswer) /\ Rejects(TitleAnswer) /\ Accepts(DirectAnswer)) =>
             /\ matcher_calls = << "group", "title", "direct" >>
             /\ alias_result = CommittedTo(DirectAnswer)
       /\ (Rejects(GroupAnswer) /\ Rejects(TitleAnswer) /\ Rejects(DirectAnswer)) =>
             /\ matcher_calls = << "group", "title", "direct" >>
             /\ alias_result = InvalidRecipient(alias_name)
       /\ (Accepts(GroupAnswer) /\ Accepts(TitleAnswer) /\ alias_result.kind = "ok") =>
             alias_result.source.type = "GroupAlias"

\* "A" names a group without members and is a title held by someone: the
\* title matcher is not called
C16_Witness ==
    /\ apc = "done"
    /\ alias_name = NameA
    /\ Accepts(GroupAnswer) /\ GroupAnswer.personIds = << >>
    /\ Accepts(TitleAnswer) /\ TitleAnswer.personIds # << >>
    /\ matcher_calls = << "group" >>
    /\ alias_result = InvalidRecipient(NameA)

\* a name that is a group and a title, both with members, resolves as the
\* group
C16_GroupBeforeTitle ==
    /\ apc = "done"
    /\ Accepts(GroupAnswer) /\ Accepts(TitleAnswer)
    /\ TitleAnswer.personIds # << >>
    /\ alias_result.kind = "ok"
    /\ alias_result.source = GroupAlias("ga")

\* parse_alias step by step gives what ParseAlias gives
C16_AgreesWithParseAlias ==
    apc = "done" => alias_result = ParseAlias(alias_name, db, DefaultPeriod)

\* ------------------------------------------------------------------------
\* Properties of the envelopes of the grouped path (SpecCopy)
\* ------------------------------------------------------------------------

\* the envelope received
Original == heap[original_envelope]

\* the headers of a field, in order
OfField(headers, field) == SelectSeq(headers, LAMBDA h : h.field = field)

FieldsOf(headers) == { headers[n].field : n \in 1..Len(headers) }

\* the fields the extra headers of the group name
ExtraFields(g) == FieldsOf(hook_answers[g].extra)

\* the trace line of the group, if the hook answered one
TraceOf(g) ==
    IF hook_answers[g].received = NoReceived THEN << >>
    ELSE << Header("Received", g) >>

\* the message handed to deliver for a group holds the trace line of the
\* group in front of those received, one header of the group for each field
\* of its extra headers, and in every other field the headers received
OriginalPlusOwnHeaders(d) ==
    /\ OfField(d.headers, "Received")
          = TraceOf(d.group) \o OfField(Original.headers, "Received")
    /\ \A f \in ExtraFields(d.group) :
          OfField(d.headers, f) = << Header(f, d.group) >>
    /\ \A f \in (FieldsOf(d.headers) \cup FieldsOf(Original.headers))
                   \ (ExtraFields(d.group) \cup {"Received"}) :
          OfField(d.headers, f) = OfField(Original.headers, f)

\* no header made for another group is in it
NoHeaderOfAnotherGroup(d) ==
    \A n \in 1..Len(d.headers) : d.headers[n].value \in {0, d.group}

\* C17: the message handed to deliver for a group holds the headers
\* received, the trace line and the extra headers of that group and no
\* header of another group; the loop over the groups never changes the
\* envelope received: headers, sender and recipient list.
C17_GroupsWorkOnCopies ==
    /\ [](\A k \in 1..Len(handed) :
             /\ OriginalPlusOwnHeaders(handed[k])
             /\ NoHeaderOfAnotherGroup(handed[k]))
    /\ [][heap'[original_envelope'] = heap[original_envelope]]_vars

\* two groups delivered, each with a trace line and extra headers: the
\* Sender received is replaced in both, and the envelope received is as it
\* was
C17_Witness ==
    /\ cpc = "done"
    /\ Len(handed) = 2
    /\ Original.headers
          = << Header("Received", 0), Header("Sender", 0), Header("Subject", 0) >>
    /\ handed[1].headers = << Header("Received", 1), Header("Received", 0),
                              Header("Sender", 1), Header("Subject", 0),
                              Header("List-Id", 1) >>
    /\ handed[2].headers = << Header("Received", 2), Header("Received", 0),
                              Header("Sender", 2), Header("Subject", 0) >>

====
